---- MODULE Spec2Model ----
(***************************************************************************)
(* Model of run_algo_prototype (src/main.py), the Orchestrator of the      *)
(* algo-trading prototype, and of the collaborators it drives: the         *)
(* Strategy Signal Generator, the Backtest Simulation Engine and the       *)
(* Feature/Prediction Engine, whose code is not part of main.py and is     *)
(* modelled from their contracts.                                          *)
(*                                                                         *)
(* Spec       : a run on any mapping of up to MaxSymbols symbols, with     *)
(*              every answer the collaborators can give.                   *)
(* SpecSample : the same run, with a sample of the answers.                *)
(* SpecBars   : the same run on one symbol whose bars are known; the       *)
(*              collaborators' answers are computed from the bars.         *)
(* SpecWindow : as SpecBars, on series chosen around the trailing window.  *)
(* SpecPnl    : the same run, with backtest results of varying amounts.    *)
(* SpecBacktest : a run of the Backtest Simulation Engine alone, replayed  *)
(*              bar by bar on any bars_with_signal.                        *)
(***************************************************************************)
EXTENDS Integers, Sequences, FiniteSets, TLC

\* ------------------------------------------------------------------ bounds
MaxSymbols == 2
MaxTrades == 2
MaxPrice == 2
MaxMid == 1
MaxEnd == 2
MaxBars == 4

\* --------------------------------------------------------------- constants
\* The MACD long period, as run_algo_prototype uses it for the prediction window.
MACD_LONG == 26
\* The RSI overbought threshold of the signal rules.
OVERBOUGHT == 70
\* The minimum number of feature rows prepare_data_for_ml returns.
MIN_ML_ROWS == 30

\* ------------------------------------------------------- series and windows
\* A series (DataFrame) is the sequence of its bars' closes, oldest first; a
\* configuration st is [RSI_PERIOD, SHORT_MA_PERIOD, LONG_MA_PERIOD].
Max2(a, b) == IF a >= b THEN a ELSE b

\* A variant that takes the first n rows: df.head(n).
Head_n(df, n) ==
    IF Len(df) <= n THEN df ELSE SubSeq(df, 1, n)

\* df.tail(n)
Tail_n(df, n) ==
    IF Len(df) <= n THEN df ELSE SubSeq(df, Len(df) - n + 1, Len(df))

\* max(RSI_PERIOD, SHORT_MA_PERIOD, LONG_MA_PERIOD) + 1
required_rows_for_indicators(st) ==
    Max2(st.RSI_PERIOD, Max2(st.SHORT_MA_PERIOD, st.LONG_MA_PERIOD)) + 1

latest_data_for_signal(st, df) == Tail_n(df, required_rows_for_indicators(st))

\* The rows of a frame with their index: the date of a bar is its position in
\* the full series.
Bars(df) == [k \in 1..Len(df) |-> [Date |-> k, Close |-> df[k]]]

\* A bar that stands for no bar of a series.
NoBar == [Date |-> 0, Close |-> 0]

\* df.tail(max(RSI_PERIOD, 26) + 2)
ml_prediction_input_data(st, df) == Tail_n(df, Max2(st.RSI_PERIOD, MACD_LONG) + 2)

\* ------------------------------------------------ Strategy Signal Generator
\* Sum of the p closes ending at bar k (k >= p).
RECURSIVE SumClose(_, _, _)
SumClose(df, k, p) == IF p = 0 THEN 0 ELSE df[k] + SumClose(df, k - 1, p - 1)

\* Total gain and total loss over the closes of the p bars ending at bar k.
RECURSIVE Gain(_, _, _)
Gain(df, k, p) ==
    IF p <= 1 THEN 0
    ELSE (IF df[k] > df[k - 1] THEN df[k] - df[k - 1] ELSE 0) + Gain(df, k - 1, p - 1)

RECURSIVE Loss(_, _, _)
Loss(df, k, p) ==
    IF p <= 1 THEN 0
    ELSE (IF df[k] < df[k - 1] THEN df[k - 1] - df[k] ELSE 0) + Loss(df, k - 1, p - 1)

\* An indicator of period p is undefined for the first p-1 bars.
Defined(k, p) == k >= p

MADefined(st, k) == Defined(k, st.SHORT_MA_PERIOD) /\ Defined(k, st.LONG_MA_PERIOD)

IndicatorsDefined(st, k) ==
    /\ Defined(k, st.RSI_PERIOD)
    /\ MADefined(st, k)
    /\ Defined(k, MACD_LONG)

\* short MA > long MA, resp. <, at bar k (means compared without dividing).
ShortAbove(st, df, k) ==
    SumClose(df, k, st.SHORT_MA_PERIOD) * st.LONG_MA_PERIOD
        > SumClose(df, k, st.LONG_MA_PERIOD) * st.SHORT_MA_PERIOD

ShortBelow(st, df, k) ==
    SumClose(df, k, st.SHORT_MA_PERIOD) * st.LONG_MA_PERIOD
        < SumClose(df, k, st.LONG_MA_PERIOD) * st.SHORT_MA_PERIOD

\* RSI = 100 * gain / (gain + loss) against the overbought threshold; a flat
\* stretch (no gain, no loss) is neither above nor at the threshold.
RsiAbove(st, df, k) ==
    LET g == Gain(df, k, st.RSI_PERIOD)
        l == Loss(df, k, st.RSI_PERIOD)
    IN  g + l > 0 /\ 100 * g > OVERBOUGHT * (g + l)

RsiBelow(st, df, k) ==
    LET g == Gain(df, k, st.RSI_PERIOD)
        l == Loss(df, k, st.RSI_PERIOD)
    IN  g + l = 0 \/ 100 * g < OVERBOUGHT * (g + l)

CrossUp(st, df, k) ==
    /\ k > 1
    /\ MADefined(st, k - 1)
    /\ ~ShortAbove(st, df, k - 1)
    /\ ShortAbove(st, df, k)

CrossDown(st, df, k) ==
    /\ k > 1
    /\ MADefined(st, k - 1)
    /\ ~ShortBelow(st, df, k - 1)
    /\ ShortBelow(st, df, k)

RsiCrossAbove(st, df, k) ==
    /\ k > 1
    /\ Defined(k - 1, st.RSI_PERIOD)
    /\ ~RsiAbove(st, df, k - 1)
    /\ RsiAbove(st, df, k)

BuyRule(st, df, k) == CrossUp(st, df, k) /\ RsiBelow(st, df, k)

\* Whether a position would be open before bar k: the bars with every
\* indicator defined are replayed in order, a BUY opening the position and a
\* SELL closing it.  A bar where the BUY rule, a cross down or an RSI cross
\* above the threshold holds leaves the position open exactly if its BUY rule
\* holds, whatever the position was, so the last such bar before k decides.
PositionOpenBefore(st, df, k) ==
    LET events == {m \in 1..(k - 1) :
                      /\ IndicatorsDefined(st, m)
                      /\ \/ BuyRule(st, df, m)
                         \/ CrossDown(st, df, m)
                         \/ RsiCrossAbove(st, df, m)}
    IN  /\ events # {}
        /\ BuyRule(st, df, CHOOSE m \in events : \A x \in events : x <= m)

\* The Signal of bar k: BUY, SELL or HOLD.
SignalAt(st, df, k) ==
    IF BuyRule(st, df, k) THEN 1
    ELSE IF \/ CrossDown(st, df, k)
            \/ (RsiCrossAbove(st, df, k) /\ PositionOpenBefore(st, df, k))
         THEN -1
    ELSE 0

\* generate_signals(df): one row per bar, in order; a row is null while an
\* indicator is undefined, and carries its Signal otherwise.
generate_signals(st, df) ==
    [k \in 1..Len(df) |->
        IF IndicatorsDefined(st, k)
        THEN [isnull |-> FALSE, Signal |-> SignalAt(st, df, k)]
        ELSE [isnull |-> TRUE, Signal |-> 0]]

\* processed_latest_data.iloc[-1] of a non-empty series.
LastRow(rows) == rows[Len(rows)]

\* ------------------------------------------------ Backtest Simulation Engine
\* run_backtest returns an empty result unless some bar carries a defined Signal.
HasDefinedSignal(st, df) == \E k \in 1..Len(df) : IndicatorsDefined(st, k)

\* The closed round trips: the SELL bars reached while LONG.
ClosedTrades(st, df) ==
    Cardinality({k \in 1..Len(df) :
                    /\ IndicatorsDefined(st, k)
                    /\ SignalAt(st, df, k) = -1
                    /\ PositionOpenBefore(st, df, k)})

\* Amounts of money and quantities of shares are exact fractions <<n, d>> in
\* lowest terms, d > 0: position sizing permits fractional shares.
RECURSIVE GCD(_, _)
GCD(a, b) == IF b = 0 THEN a ELSE GCD(b, a % b)

Abs(x) == IF x < 0 THEN -x ELSE x

Rat(n, d) == LET g == GCD(Abs(n), d) IN <<n \div g, d \div g>>

RInt(n) == <<n, 1>>
RAdd(x, y) == Rat(x[1] * y[2] + y[1] * x[2], x[2] * y[2])
RSub(x, y) == Rat(x[1] * y[2] - y[1] * x[2], x[2] * y[2])
RMul(x, y) == Rat(x[1] * y[1], x[2] * y[2])
RDiv(x, y) == Rat(x[1] * y[2], x[2] * y[1])

\* The capital a backtest starts with.
INITIAL_CAPITAL == 100

\* The engine's account: the cash on hand, the open positions (the engine is
\* FLAT when there is none, LONG otherwise) and the closed round trips.
NewAccount == [capital |-> RInt(INITIAL_CAPITAL), positions |-> <<>>, trade_log |-> <<>>]

\* FLAT, BUY on bar k: the whole capital buys capital / close shares.
OpenPosition(acct, symbol, k, close) ==
    [acct EXCEPT
        !.positions = Append(@, [entry_date |-> k, entry_price |-> close,
                                 quantity |-> RDiv(acct.capital, RInt(close))]),
        !.capital = RInt(0)]

\* LONG, SELL on bar k: the position is closed at the bar's close, the round
\* trip is recorded and the proceeds are credited.
ClosePosition(acct, symbol, k, close) ==
    LET pos == acct.positions[1]
    IN  [acct EXCEPT
            !.positions = Tail(@),
            !.trade_log = Append(@,
                [symbol |-> symbol, entry_date |-> pos.entry_date,
                 entry_price |-> pos.entry_price, exit_date |-> k,
                 exit_price |-> close, quantity |-> pos.quantity,
                 realized_pnl |-> RMul(pos.quantity, RInt(close - pos.entry_price))]),
            !.capital = RAdd(@, RMul(pos.quantity, RInt(close)))]

\* A variant that opens a position on every BUY.
OnBuyAlways(acct, symbol, k, close) == OpenPosition(acct, symbol, k, close)

\* What a BUY does to the account.
OnBuy(acct, symbol, k, close) ==
    IF acct.positions = <<>> THEN OpenPosition(acct, symbol, k, close) ELSE acct

\* What a SELL does to the account.
OnSell(acct, symbol, k, close) ==
    IF acct.positions # <<>> THEN ClosePosition(acct, symbol, k, close) ELSE acct

\* One bar of the replay: an undefined Signal and a HOLD cause no transition.
BacktestStep(acct, symbol, k, row) ==
    IF row.isnull THEN acct
    ELSE IF row.Signal = 1 THEN OnBuy(acct, symbol, k, row.Close)
    ELSE IF row.Signal = -1 THEN OnSell(acct, symbol, k, row.Close)
    ELSE acct

RECURSIVE SumRealized(_)
SumRealized(log) ==
    IF log = <<>> THEN RInt(0) ELSE RAdd(log[1].realized_pnl, SumRealized(Tail(log)))

\* A variant that values the open positions at their entry price.
RECURSIVE MarketValueAtEntry(_, _)
MarketValueAtEntry(positions, close) ==
    IF positions = <<>> THEN RInt(0)
    ELSE RAdd(RMul(positions[1].quantity, RInt(positions[1].entry_price)),
              MarketValueAtEntry(Tail(positions), close))

\* The value of the open positions at a close price.
RECURSIVE MarketValue(_, _)
MarketValue(positions, close) ==
    IF positions = <<>> THEN RInt(0)
    ELSE RAdd(RMul(positions[1].quantity, RInt(close)), MarketValue(Tail(positions), close))

\* The result at the end of the data: empty when there is no bar or no bar
\* carries a defined Signal; otherwise an open position is marked to market
\* against the final close and is not recorded as a Trade.
BacktestResult(acct, symbol, rows) ==
    IF rows = <<>> \/ \A k \in DOMAIN rows : rows[k].isnull
    THEN [ok |-> FALSE, symbol |-> symbol, initial_capital |-> RInt(0),
          final_capital |-> RInt(0), total_pnl |-> RInt(0), trade_log |-> <<>>]
    ELSE [ok |-> TRUE, symbol |-> symbol,
          initial_capital |-> RInt(INITIAL_CAPITAL),
          final_capital |-> RAdd(acct.capital,
                                 MarketValue(acct.positions, rows[Len(rows)].Close)),
          total_pnl |-> SumRealized(acct.trade_log),
          trade_log |-> acct.trade_log]

\* The bars that can cause a transition: those with a BUY or a SELL.
EventBars(rows) == {k \in DOMAIN rows : ~rows[k].isnull /\ rows[k].Signal # 0}

\* The account after the given bars have been replayed in date order; the
\* bars left out, with an undefined Signal or a HOLD, cause no transition.
RECURSIVE Replay(_, _, _, _)
Replay(acct, symbol, events, rows) ==
    IF events = {} THEN acct
    ELSE LET k == CHOOSE x \in events : \A y \in events : x <= y
         IN  Replay(BacktestStep(acct, symbol, k, rows[k]), symbol, events \ {k}, rows)

\* run_backtest(symbol, generate_signals(df)) on the bars of a series.
BacktestOfSeries(st, df) ==
    LET signals == generate_signals(st, df)
        rows == [k \in 1..Len(df) |->
                    [isnull |-> signals[k].isnull, Signal |-> signals[k].Signal,
                     Close |-> df[k]]]
    IN  BacktestResult(Replay(NewAccount, 1, EventBars(rows), rows), 1, rows)

\* ------------------------------------------------- Feature/Prediction Engine
\* Number of rows of df with every feature and the next-bar label defined:
\* the warm-up bars and the last bar are dropped.
FeatureRows(st, df) ==
    LET first == Max2(st.RSI_PERIOD, MACD_LONG)
    IN  IF Len(df) - 1 >= first THEN Len(df) - first ELSE 0

\* prepare_data_for_ml(df) is non-empty: enough rows survive.
prepare_data_for_ml_nonempty(st, df) == FeatureRows(st, df) >= MIN_ML_ROWS


\* ------------------------------------------------------------------ state
VARIABLES
    pc,                 \* position in run_algo_prototype
    historical_data,    \* the provider's mapping, in iteration order
    i,                  \* index of the symbol the current loop is at
    trained,            \* ml_predictor_instance.trained
    fittedOn,           \* symbol whose feature rows the instance's model was last fitted on (0: none)
    fitCount,           \* number of fits of the instance's model in this run
    ml_accuracies,      \* symbols with a recorded accuracy
    symbol_pnl_results, \* the PnL summary map: symbol -> the stored amounts
    all_trade_logs,     \* the aggregated trade log
    results,            \* per symbol, what run_backtest returned (<<>>: not called)
    next_day_pred,      \* the local next_day_pred: <<>> while unbound, <<v>> once assigned
    current,            \* per symbol, what the current-signal step computed
    alerts,             \* per symbol, number of send_telegram_message calls
    calls,              \* every collaborator call so far, in order
    settings,           \* the configured periods
    series,             \* per symbol, the closes of its bars, where the run is on concrete bars
    bars,               \* the bars_with_signal a run of the Backtest Engine replays
    bt                  \* the Backtest Engine's replay: next bar, account, result

vars == <<pc, historical_data, i, trained, fittedOn, fitCount, ml_accuracies,
          symbol_pnl_results, all_trade_logs, results, next_day_pred, current,
          alerts, calls, settings, series, bars, bt>>

Signals == {-1, 0, 1}

\* One entry of the provider's mapping together with what the collaborators
\* answer on that symbol's series in this run:
\*   empty     : df.empty
\*   ml_rows   : prepare_data_for_ml(df) is non-empty
\*   isnull    : the last row of generate_signals(latest_data_for_signal) has a null field
\*   Signal    : that row's Signal, when it has no null field
\*   pred      : what predict_next_day_movement returns on ml_prediction_input_data
\*               once the model is trained
\*   result_ok : run_backtest returns a non-empty result
\*   n_trades  : the number of closed trades in that result's trade log
\*   last_bar  : date and close of the last bar of df
\*   row_bar   : date and close of the last row of generate_signals(latest_data_for_signal)
\*   total_pnl, final_capital : the amounts of that result; unless stated
\*               otherwise, those of a backtest that ends flat with its trades at break-even
EmptyEntry ==
    [empty |-> TRUE, ml_rows |-> FALSE, isnull |-> TRUE, Signal |-> 0, pred |-> -1,
     result_ok |-> FALSE, n_trades |-> 0,
     total_pnl |-> RInt(0), final_capital |-> RInt(INITIAL_CAPITAL),
     last_bar |-> NoBar, row_bar |-> NoBar]

Entry(m, null, s, p, ok, n) ==
    [empty |-> FALSE, ml_rows |-> m, isnull |-> null, Signal |-> s, pred |-> p,
     result_ok |-> ok, n_trades |-> n,
     total_pnl |-> RInt(0), final_capital |-> RInt(INITIAL_CAPITAL),
     last_bar |-> [Date |-> 1, Close |-> 1], row_bar |-> [Date |-> 1, Close |-> 1]]

\* The entry with the amounts of a result whose closed trades realised `total`
\* and whose open position, marked to market, carries `unrealized`.
WithAmounts(entry, total, unrealized) ==
    [entry EXCEPT !.total_pnl = total,
                  !.final_capital = RAdd(RAdd(RInt(INITIAL_CAPITAL), total), unrealized)]

\* What run_backtest may answer: an empty result, or 0..MaxTrades closed trades.
BacktestAnswers == {<<FALSE, 0>>} \cup {<<TRUE, n>> : n \in 0..MaxTrades}

\* Every answer the collaborators can give on a symbol.
SymbolData ==
    {EmptyEntry}
    \cup {Entry(m, TRUE, 0, p, r[1], r[2]) :
             m \in BOOLEAN, p \in {-1, 0, 1}, r \in BacktestAnswers}
    \cup {Entry(m, FALSE, s, p, r[1], r[2]) :
             m \in BOOLEAN, s \in Signals, p \in {-1, 0, 1}, r \in BacktestAnswers}

\* A sample of them: every backtest answer, feature preparation empty or not,
\* a HOLD or a BUY as the current signal, a prediction of "up".
SampleData ==
    {EmptyEntry}
    \cup {Entry(m, FALSE, s, 1, r[1], r[2]) :
             m \in BOOLEAN, s \in {0, 1}, r \in BacktestAnswers}

\* predict_next_day_movement(recent_bars, features) on a trained model.
predict_next_day_movement(entry) == entry.pred

\* The answers of the collaborators on the series df under configuration st,
\* with a classifier that answers model_output on a usable feature row.
EntryOf(st, df, model_output) ==
    IF df = <<>> THEN EmptyEntry
    ELSE LET row == LastRow(generate_signals(st, latest_data_for_signal(st, df)))
             result == BacktestOfSeries(st, df)
         IN  [Entry(prepare_data_for_ml_nonempty(st, df),
                    row.isnull,
                    row.Signal,
                    IF prepare_data_for_ml_nonempty(st, ml_prediction_input_data(st, df))
                    THEN model_output ELSE -1,
                    HasDefinedSignal(st, df),
                    ClosedTrades(st, df))
                EXCEPT !.total_pnl = result.total_pnl,
                       !.final_capital = result.final_capital,
                       !.last_bar = LastRow(Bars(df)),
                       !.row_bar = LastRow(latest_data_for_signal(st, Bars(df)))]

NoSettings == [RSI_PERIOD |-> 0, SHORT_MA_PERIOD |-> 0, LONG_MA_PERIOD |-> 0]

Mappings(data) == UNION {[1..n -> data] : n \in 0..MaxSymbols}

Symbols == DOMAIN historical_data

\* The trade log run_backtest returns for symbol s with n closed trades.
TradeLog(s, n) == [k \in 1..n |-> [symbol |-> s, trade |-> k]]

\* run_backtest(symbol, df): an empty (falsy) result, or a result with its trade log.
run_backtest(s, entry) ==
    [ok |-> entry.result_ok,
     initial_capital |-> RInt(INITIAL_CAPITAL),
     final_capital |-> entry.final_capital,
     total_pnl |-> entry.total_pnl,
     trade_log |-> TradeLog(s, entry.n_trades)]

NoCurrent == [done |-> FALSE, fallback |-> FALSE, current_signal |-> 0,
              signal_type |-> "HOLD", predicted |-> FALSE, pred |-> -1, predBy |-> 0,
              current_date |-> 0, current_close |-> 0, alert_args |-> <<>>]

\* A replay of the Backtest Engine before its first bar.
NewReplay == [k |-> 1, acct |-> NewAccount, result |-> <<>>]

InitRun ==
    /\ pc = "start"
    /\ i = 0
    /\ trained = FALSE
    /\ fittedOn = 0
    /\ fitCount = 0
    /\ ml_accuracies = {}
    /\ symbol_pnl_results = <<>>
    /\ all_trade_logs = <<>>
    /\ results = [s \in DOMAIN historical_data |-> <<>>]
    /\ next_day_pred = <<>>
    /\ current = [s \in DOMAIN historical_data |-> NoCurrent]
    /\ alerts = [s \in DOMAIN historical_data |-> 0]
    /\ calls = <<>>
    /\ bt = NewReplay

\* A run on any mapping, with any answers of the collaborators.
Init ==
    /\ historical_data \in Mappings(SymbolData)
    /\ settings = NoSettings
    /\ series = <<>>
    /\ bars = <<>>
    /\ InitRun

\* ------------------------------------------------------------- control flow
\* Entering a `for symbol, df in historical_data.items()` loop (the mapping is
\* non-empty whenever a loop is entered).
LoopEnter(here) == <<here, 1>>

\* A variant that takes each symbol through training and backtest before the
\* next symbol is trained.
LoopNextPerSymbol(k, here, after) ==
    IF here = "train" THEN <<"backtest", k>>
    ELSE IF here = "backtest" /\ k < Len(historical_data) THEN <<"train", k + 1>>
    ELSE IF k < Len(historical_data) THEN <<here, k + 1>> ELSE after

\* After the loop body for index k: go on with k+1 or, past the last symbol,
\* fall through to `after`.
LoopNext(k, here, after) ==
    IF k < Len(historical_data) THEN <<here, k + 1>> ELSE after

\* The order of the sections of run_algo_prototype.
AfterTraining == LoopEnter("backtest")
AfterBacktest == <<"sheets", 0>>
AfterSheets == LoopEnter("signal")
AfterSignals == <<"finished", 0>>

\* ---------------------------------------------------------------- step 1
\* `if not historical_data`: only the empty mapping is falsy.
NoHistoricalData == Len(historical_data) = 0

FetchData ==
    /\ pc = "start"
    /\ calls' = Append(calls, <<"get_historical_data", 0>>)
    /\ pc' = IF NoHistoricalData THEN "aborted" ELSE LoopEnter("train")[1]
    /\ i' = IF NoHistoricalData THEN 0 ELSE LoopEnter("train")[2]
    /\ UNCHANGED <<historical_data, trained, fittedOn, fitCount, ml_accuracies,
                   symbol_pnl_results, all_trade_logs, results, next_day_pred,
                   current, alerts, settings, series, bars, bt>>

\* ---------------------------------------------------------------- step 2
\* train_model on the one MLPredictor instance: every call fits its model
\* anew, on the rows it is given.
train_model(s) ==
    /\ trained' = TRUE
    /\ fittedOn' = s
    /\ fitCount' = fitCount + 1

\* A variant that leaves the training loop at the first symbol without
\* data or without feature rows.
TrainSymbolFailFast ==
    /\ pc = "train"
    /\ IF historical_data[i].empty
       THEN UNCHANGED <<trained, fittedOn, fitCount, ml_accuracies, calls>>
       ELSE IF historical_data[i].ml_rows
             THEN /\ train_model(i)
                  /\ ml_accuracies' = ml_accuracies \cup {i}
                  /\ calls' = calls \o <<<<"prepare_data_for_ml", i>>, <<"train_model", i>>>>
             ELSE /\ calls' = Append(calls, <<"prepare_data_for_ml", i>>)
                  /\ UNCHANGED <<trained, fittedOn, fitCount, ml_accuracies>>
    /\ LET failed == historical_data[i].empty \/ ~historical_data[i].ml_rows
           next == IF failed THEN AfterTraining ELSE LoopNext(i, "train", AfterTraining)
       IN  pc' = next[1] /\ i' = next[2]
    /\ UNCHANGED <<historical_data, symbol_pnl_results, all_trade_logs, results,
                   next_day_pred, current, alerts, settings, series, bars, bt>>

\* The body of the training loop for the symbol at index i.
TrainSymbol ==
    /\ pc = "train"
    /\ IF historical_data[i].empty
       THEN UNCHANGED <<trained, fittedOn, fitCount, ml_accuracies, calls>>
       ELSE IF historical_data[i].ml_rows
             THEN /\ train_model(i)
                  /\ ml_accuracies' = ml_accuracies \cup {i}
                  /\ calls' = calls \o <<<<"prepare_data_for_ml", i>>, <<"train_model", i>>>>
             ELSE /\ calls' = Append(calls, <<"prepare_data_for_ml", i>>)
                  /\ UNCHANGED <<trained, fittedOn, fitCount, ml_accuracies>>
    /\ pc' = LoopNext(i, "train", AfterTraining)[1]
    /\ i' = LoopNext(i, "train", AfterTraining)[2]
    /\ UNCHANGED <<historical_data, symbol_pnl_results, all_trade_logs, results,
                   next_day_pred, current, alerts, settings, series, bars, bt>>

\* ---------------------------------------------------------------- step 3
\* A variant that keeps only the latest symbol's trade log.
ConcatLogsOverwrite(acc, log) == log

\* pd.concat([all_trade_logs, results['trade_log']], ignore_index=True)
ConcatLogs(acc, log) == acc \o log

\* A variant that stores total_pnl under 'final_capital'.
PnlSummaryTotalAsFinal(r) ==
    [initial_capital |-> r.initial_capital,
     final_capital |-> r.total_pnl,
     total_pnl |-> r.total_pnl]

\* The summary stored for a symbol: three fields of its result.
PnlSummary(r) ==
    [initial_capital |-> r.initial_capital,
     final_capital |-> r.final_capital,
     total_pnl |-> r.total_pnl]

\* symbol_pnl_results[symbol] = summary
StorePnl(map, s, summary) ==
    [x \in (DOMAIN map) \cup {s} |-> IF x = s THEN summary ELSE map[x]]

\* The body of the backtest loop for the symbol at index i.
BacktestSymbol ==
    /\ pc = "backtest"
    /\ IF historical_data[i].empty
       THEN UNCHANGED <<symbol_pnl_results, all_trade_logs, results, calls>>
       ELSE LET r == run_backtest(i, historical_data[i])
            IN
            /\ calls' = Append(calls, <<"run_backtest", i>>)
            /\ results' = [results EXCEPT ![i] = <<r>>]
            /\ symbol_pnl_results' =
                   IF r.ok THEN StorePnl(symbol_pnl_results, i, PnlSummary(r))
                   ELSE symbol_pnl_results
            /\ all_trade_logs' =
                   IF r.ok /\ r.trade_log # <<>>
                   THEN ConcatLogs(all_trade_logs, r.trade_log)
                   ELSE all_trade_logs
    /\ pc' = LoopNext(i, "backtest", AfterBacktest)[1]
    /\ i' = LoopNext(i, "backtest", AfterBacktest)[2]
    /\ UNCHANGED <<historical_data, trained, fittedOn, fitCount, ml_accuracies,
                   next_day_pred, current, alerts, settings, series, bars, bt>>

\* ---------------------------------------------------------------- step 4
\* A variant that delivers to the sink whatever the aggregates hold.
SheetsCallsUnguarded ==
    <<<<"log_trade_signals", 0>>, <<"update_win_ratio", 0>>, <<"update_summary_pnl", 0>>>>

\* The sink calls of the section: the trade log and the win ratio when the
\* aggregated trade log is non-empty, the summary when the PnL map is.
SheetsCalls ==
    (IF all_trade_logs # <<>>
     THEN <<<<"log_trade_signals", 0>>, <<"update_win_ratio", 0>>>>
     ELSE <<>>)
    \o (IF DOMAIN symbol_pnl_results # {} THEN <<<<"update_summary_pnl", 0>>>> ELSE <<>>)

UpdateSheets ==
    /\ pc = "sheets"
    /\ calls' = calls \o SheetsCalls
    /\ pc' = AfterSheets[1]
    /\ i' = AfterSheets[2]
    /\ UNCHANGED <<historical_data, trained, fittedOn, fitCount, ml_accuracies,
                   symbol_pnl_results, all_trade_logs, results, next_day_pred,
                   current, alerts, settings, series, bars, bt>>

\* ------------------------------------------------------------ steps 5 and 6
\* The current signal from the last row of the processed trailing window.
CurrentSignalOf(row) == IF row.isnull THEN 0 ELSE row.Signal

\* current_date and current_close: from the full series on the fallback path,
\* from the last processed row otherwise.
CurrentBarOf(entry) == IF entry.isnull THEN entry.last_bar ELSE entry.row_bar

SignalType(current_signal) ==
    IF current_signal = 1 THEN "BUY"
    ELSE IF current_signal = -1 THEN "SELL" ELSE "HOLD"

\* `current_signal != 0 or next_day_pred != -1`, with Python's short-circuit
\* `or`: the right operand is read only when the left one is false, and
\* reading the unbound local raises.
AlertRaises(current_signal, ndp) == current_signal = 0 /\ ndp = <<>>
AlertCondition(current_signal, ndp) == current_signal # 0 \/ ndp[1] # -1

\* ml_prediction_input_data.empty: the tail of a frame is empty only when the
\* frame is.
PredictionWindowEmpty(entry) == entry.empty

\* A variant that queries the model whether or not it was trained.
ShouldPredictUntrained(entry, is_trained) == ~PredictionWindowEmpty(entry)

\* `not ml_prediction_input_data.empty and ml_predictor_instance.trained`
ShouldPredict(entry, is_trained) == ~PredictionWindowEmpty(entry) /\ is_trained

\* The body of the current-signal loop for the symbol at index i.
SignalSymbol ==
    /\ pc = "signal"
    /\ IF historical_data[i].empty
       THEN /\ pc' = LoopNext(i, "signal", AfterSignals)[1]
            /\ i' = LoopNext(i, "signal", AfterSignals)[2]
            /\ UNCHANGED <<next_day_pred, current, alerts, calls>>
       ELSE LET model_output == predict_next_day_movement(historical_data[i])
                current_signal == CurrentSignalOf(historical_data[i])
                signal_type == SignalType(current_signal)
                bar == CurrentBarOf(historical_data[i])
                predicted == ShouldPredict(historical_data[i], trained)
                ndp == IF predicted THEN <<model_output>> ELSE next_day_pred
                raises == AlertRaises(current_signal, ndp)
                alert == ~raises /\ AlertCondition(current_signal, ndp)
            IN  /\ next_day_pred' = ndp
                /\ current' = [current EXCEPT ![i] =
                       [done |-> TRUE, fallback |-> historical_data[i].isnull,
                        current_signal |-> current_signal,
                        signal_type |-> signal_type, predicted |-> predicted,
                        pred |-> IF predicted THEN model_output ELSE -1,
                        predBy |-> IF predicted THEN fittedOn ELSE 0,
                        current_date |-> bar.Date,
                        current_close |-> bar.Close,
                        alert_args |->
                            IF alert
                            THEN <<[symbol |-> i, date |-> bar.Date,
                                    signal_type |-> signal_type, price |-> bar.Close]>>
                            ELSE <<>>]]
                /\ calls' = calls \o <<<<"generate_signals", i>>>>
                       \o (IF predicted THEN <<<<"predict_next_day_movement", i>>>> ELSE <<>>)
                       \o (IF alert THEN <<<<"get_signal_alerts", i>>, <<"send_telegram_message", i>>>>
                           ELSE <<>>)
                /\ alerts' = IF alert THEN [alerts EXCEPT ![i] = @ + 1] ELSE alerts
                /\ pc' = IF raises THEN "raised" ELSE LoopNext(i, "signal", AfterSignals)[1]
                /\ i' = IF raises THEN i ELSE LoopNext(i, "signal", AfterSignals)[2]
    /\ UNCHANGED <<historical_data, trained, fittedOn, fitCount, ml_accuracies,
                   symbol_pnl_results, all_trade_logs, results, settings, series, bars, bt>>

Next == FetchData \/ TrainSymbol \/ BacktestSymbol \/ UpdateSheets \/ SignalSymbol

Spec == Init /\ [][Next]_vars

\* A run on any mapping, with a sample of the answers of the collaborators.
InitSample ==
    /\ historical_data \in Mappings(SampleData)
    /\ settings = NoSettings
    /\ series = <<>>
    /\ bars = <<>>
    /\ InitRun

SpecSample == InitSample /\ [][Next]_vars

\* The amounts a result may carry: what its closed trades realised (nothing
\* without a closed trade) and the unrealized PnL of a position left open.
RealizedAmounts(n) == IF n = 0 THEN {RInt(0)} ELSE {RInt(-10), RInt(10)}
UnrealizedAmounts == {RInt(0), RInt(5)}

\* Symbols whose backtest answers vary in their amounts: no data, an empty
\* result, or a result with any of the amounts above.
PnlData ==
    {EmptyEntry, Entry(TRUE, FALSE, 0, 1, FALSE, 0)}
    \cup UNION {{WithAmounts(Entry(TRUE, FALSE, 0, 1, TRUE, n), t, u) :
                    t \in RealizedAmounts(n), u \in UnrealizedAmounts} :
                 n \in 0..MaxTrades}

\* A run on any mapping of such symbols.
InitPnl ==
    /\ historical_data \in Mappings(PnlData)
    /\ settings = NoSettings
    /\ series = <<>>
    /\ bars = <<>>
    /\ InitRun

SpecPnl == InitPnl /\ [][Next]_vars

\* ------------------------------------------------- runs on concrete bars
\* The configurations of the periods the runs on concrete bars are checked under.
Configs ==
    {[RSI_PERIOD |-> 3, SHORT_MA_PERIOD |-> 1, LONG_MA_PERIOD |-> 2],
     [RSI_PERIOD |-> 3, SHORT_MA_PERIOD |-> 1, LONG_MA_PERIOD |-> 25],
     [RSI_PERIOD |-> 3, SHORT_MA_PERIOD |-> 2, LONG_MA_PERIOD |-> 26],
     [RSI_PERIOD |-> 26, SHORT_MA_PERIOD |-> 1, LONG_MA_PERIOD |-> 2],
     [RSI_PERIOD |-> 27, SHORT_MA_PERIOD |-> 2, LONG_MA_PERIOD |-> 3]}

Prices == 1..MaxPrice

Flat(c, n) == [k \in 1..n |-> c]

SeqsUpTo(S, n) == UNION {[1..m -> S] : m \in 0..n}

\* The series: a flat stretch, a few free bars, a second flat stretch at the
\* same price, and a few free last bars.
SeriesFamily ==
    {Flat(c, n1) \o mid \o Flat(c, n2) \o end :
        c \in Prices, n1 \in {0, 23, 24}, mid \in SeqsUpTo(Prices, MaxMid),
        n2 \in {0, 1, 30}, end \in SeqsUpTo(Prices, MaxEnd)}

\* The class labels the fitted classifier may answer on the series' latest
\* feature row, where there is one.
ModelOutputs(st, df) ==
    IF prepare_data_for_ml_nonempty(st, ml_prediction_input_data(st, df))
    THEN {0, 1} ELSE {0}

\* A run on one symbol whose bars are known: the collaborators answer as the
\* Signal Generator and the Feature/Prediction Engine do on them.
InitBars ==
    /\ settings \in Configs
    /\ \E df \in SeriesFamily :
        /\ series = <<df>>
        /\ \E model_output \in ModelOutputs(settings, df) :
            historical_data = <<EntryOf(settings, df, model_output)>>
    /\ bars = <<>>
    /\ InitRun

SpecBars == InitBars /\ [][Next]_vars

\* Series for the trailing window: none or a flat stretch longer or shorter
\* than the window, then a few free last bars.
WindowFamily ==
    {Flat(c, n1) \o end :
        c \in Prices, n1 \in {0, 24, 30}, end \in SeqsUpTo(Prices, MaxEnd)}

\* A run on one symbol with such a series and an untrained or "up" classifier.
InitWindow ==
    /\ settings \in Configs
    /\ \E df \in WindowFamily :
        /\ series = <<df>>
        /\ historical_data = <<EntryOf(settings, df, 1)>>
    /\ bars = <<>>
    /\ InitRun

SpecWindow == InitWindow /\ [][Next]_vars

\* ------------------------------------------- runs of the Backtest Engine
\* bars_with_signal, as generate_signals returns them: the bars of the warm-up
\* window, whose Signal is undefined, then bars with a Signal.
WarmupRows == {[isnull |-> TRUE, Signal |-> 0, Close |-> c] : c \in Prices}
SignalRows == {[isnull |-> FALSE, Signal |-> sg, Close |-> c] : sg \in Signals, c \in Prices}

BarsWithSignal(warmup, n) ==
    {w \o l : w \in [1..warmup -> WarmupRows], l \in [1..(n - warmup) -> SignalRows]}

\* run_backtest(symbol, bars_with_signal): the replay of one bar.
BacktestBar ==
    /\ pc = "replay"
    /\ bt.k <= Len(bars)
    /\ bt' = [bt EXCEPT !.k = @ + 1,
                        !.acct = BacktestStep(@, 1, bt.k, bars[bt.k])]
    /\ UNCHANGED <<pc, historical_data, i, trained, fittedOn, fitCount, ml_accuracies,
                   symbol_pnl_results, all_trade_logs, results, next_day_pred,
                   current, alerts, calls, settings, series, bars>>

\* run_backtest(symbol, bars_with_signal): the end of the data.
BacktestEnd ==
    /\ pc = "replay"
    /\ bt.k > Len(bars)
    /\ bt' = [bt EXCEPT !.result = <<BacktestResult(bt.acct, 1, bars)>>]
    /\ pc' = "replayed"
    /\ UNCHANGED <<historical_data, i, trained, fittedOn, fitCount, ml_accuracies,
                   symbol_pnl_results, all_trade_logs, results, next_day_pred,
                   current, alerts, calls, settings, series, bars>>

NextBacktest == BacktestBar \/ BacktestEnd

\* A run of the Backtest Engine alone, on any bars_with_signal.
InitBacktest ==
    /\ \E n \in 0..MaxBars : \E warmup \in 0..n : bars \in BarsWithSignal(warmup, n)
    /\ historical_data = <<>>
    /\ settings = NoSettings
    /\ series = <<>>
    /\ pc = "replay"
    /\ i = 0
    /\ trained = FALSE
    /\ fittedOn = 0
    /\ fitCount = 0
    /\ ml_accuracies = {}
    /\ symbol_pnl_results = <<>>
    /\ all_trade_logs = <<>>
    /\ results = <<>>
    /\ next_day_pred = <<>>
    /\ current = <<>>
    /\ alerts = <<>>
    /\ calls = <<>>
    /\ bt = NewReplay

SpecBacktest == InitBacktest /\ [][NextBacktest]_vars

\* ------------------------------------------------------------- properties
NonEmptySymbols == {s \in Symbols : ~historical_data[s].empty}

\* The run is over: normally, by the step-1 abort, or by an escaped exception.
Terminated == pc \in {"finished", "aborted", "raised"}

\* C1: whatever the mapping and the collaborators' answers, the run reaches
\* its normal end or the step-1 abort; no exception escapes the per-symbol
\* step, also when the model was never trained and the signal is HOLD.
C1_NoExceptionEscapes == pc # "raised"

\* The prediction made for symbol s in this run; -1 when none was made.
OwnPrediction(s) == IF current[s].predicted THEN current[s].pred ELSE -1

Actionable(s) ==
    \/ CurrentSignalOf(historical_data[s]) # 0
    \/ OwnPrediction(s) \in {0, 1}

\* C2: once the run is over, every symbol with non-empty data whose current
\* signal is BUY or SELL, or whose own prediction is 0 or 1, got exactly one
\* alert, and every other symbol got none.
C2_AlertExactlyWhenActionable ==
    Terminated =>
        \A s \in NonEmptySymbols : alerts[s] = IF Actionable(s) THEN 1 ELSE 0

\* C3: every prediction for symbol s is answered by a model fitted on the
\* rows of s, and the model is fitted at most once in a run.
C3_PerSymbolModelTrainedOnce ==
    /\ \A s \in Symbols : current[s].predicted => current[s].predBy = s
    /\ fitCount <= 1

\* The per-symbol steps among the calls, in order, and the section of
\* run_algo_prototype each belongs to.
Section(call) ==
    IF call[1] \in {"prepare_data_for_ml", "train_model"} THEN 1
    ELSE IF call[1] = "run_backtest" THEN 2
    ELSE IF call[1] \in {"log_trade_signals", "update_win_ratio", "update_summary_pnl"} THEN 3
    ELSE IF call[1] = "get_historical_data" THEN 0
    ELSE 4

IsSymbolStep(call) ==
    call[1] \in {"prepare_data_for_ml", "train_model", "run_backtest", "generate_signals"}

\* C8 as stated: symbols are processed one at a time, every step of a symbol
\* before the first step of any later symbol.
C8_SymbolAtATime ==
    \A p, q \in DOMAIN calls :
        (p < q /\ IsSymbolStep(calls[p]) /\ IsSymbolStep(calls[q]))
            => calls[p][2] <= calls[q][2]

\* C8 amended: the sections run one after the other (training of every
\* symbol, then the backtest of every symbol, then the sink, then the current
\* signal of every symbol), and within a section the symbols are processed
\* one at a time in mapping order.
C8_SectionAtATime ==
    \A p, q \in DOMAIN calls :
        p < q =>
            \/ Section(calls[p]) < Section(calls[q])
            \/ /\ Section(calls[p]) = Section(calls[q])
               /\ calls[p][2] <= calls[q][2]

C8_Witness ==
    /\ pc = "finished"
    /\ \E a, b \in Symbols :
        /\ a < b
        /\ \A s \in {a, b} :
            /\ \E p \in DOMAIN calls : calls[p] = <<"train_model", s>>
            /\ \E p \in DOMAIN calls : calls[p] = <<"run_backtest", s>>
            /\ \E p \in DOMAIN calls : calls[p] = <<"generate_signals", s>>

NoSymbolHasData == NonEmptySymbols = {}

\* C9: when no symbol has data (empty mapping, or every series empty) the
\* run is aborted at step 1: it never gets past step 1, and no collaborator
\* other than the provider is ever called.
C9_AbortWhenNoData ==
    NoSymbolHasData =>
        /\ pc \in {"start", "aborted"}
        /\ \A p \in DOMAIN calls : calls[p][1] = "get_historical_data"

\* The symbols whose bars are known, and the bars of one of them.
BarSymbols == DOMAIN series
df_of(s) == series[s]

\* C4: for a non-empty series with fewer than max(RSI, short MA, long MA)+1
\* bars, the current-signal recompute yields HOLD (current_signal 0), never
\* BUY or SELL.
C4_ShortSeriesYieldsHold ==
    \A s \in BarSymbols :
        (current[s].done /\ Len(df_of(s)) < required_rows_for_indicators(settings))
            => (current[s].signal_type = "HOLD" /\ current[s].current_signal = 0)

\* C5: for a series with at least max(RSI, short MA, long MA)+1 bars, the
\* current signal recomputed from the trailing window equals the Signal
\* generate_signals assigns to the last bar of the full history.
C5_CurrentSignalMatchesHistory ==
    \A s \in BarSymbols :
        (current[s].done /\ Len(df_of(s)) >= required_rows_for_indicators(settings))
            => LET full == LastRow(generate_signals(settings, df_of(s)))
               IN  ~full.isnull => current[s].current_signal = full.Signal

\* C6: for a series with at least max(RSI, short MA, long MA)+1 bars, the
\* last row of the processed trailing window has every indicator and its
\* Signal defined: the HOLD fallback for a null latest row is not taken.
C6_SignalWindowIsComplete ==
    \A s \in BarSymbols :
        (current[s].done /\ Len(df_of(s)) >= required_rows_for_indicators(settings))
            => ~current[s].fallback

\* C7: for a series with at least max(RSI, 26)+2 bars and a trained model,
\* the prediction window leaves a usable feature row: the prediction is 0 or
\* 1, never the sentinel -1.
C7_PredictionWindowIsUsable ==
    \A s \in BarSymbols :
        (current[s].predicted /\ Len(df_of(s)) >= Max2(settings.RSI_PERIOD, MACD_LONG) + 2)
            => current[s].pred \in {0, 1}

\* The trade log run_backtest returned for s; empty when it was not called
\* or returned an empty result.
OwnTradeLog(s) ==
    IF results[s] # <<>> /\ results[s][1].ok THEN results[s][1].trade_log ELSE <<>>

RECURSIVE SumOwnLogs(_)
SumOwnLogs(n) == IF n = 0 THEN 0 ELSE Len(OwnTradeLog(n)) + SumOwnLogs(n - 1)

TradesOf(log, s) == LET IsOf(t) == t.symbol = s IN SelectSeq(log, IsOf)

\* C10: the aggregated trade log is as long as the trade logs of the symbols
\* backtested so far together, and each symbol's trades appear in it unaltered
\* and in their own order.
C10_AggregateKeepsEveryTrade ==
    /\ Len(all_trade_logs) = SumOwnLogs(Len(historical_data))
    /\ \A s \in Symbols : TradesOf(all_trade_logs, s) = OwnTradeLog(s)

C10_Witness ==
    /\ pc = "sheets"
    /\ \E a, b \in Symbols :
        /\ a # b
        /\ Len(OwnTradeLog(a)) >= 2
        /\ Len(OwnTradeLog(b)) >= 1

\* The result of the replay, once the engine has returned.
Replayed == pc = "replayed"
TheResult == bt.result[1]

\* The unrealized PnL of the open positions at a close price.
RECURSIVE Unrealized(_, _)
Unrealized(positions, close) ==
    IF positions = <<>> THEN RInt(0)
    ELSE RAdd(RMul(positions[1].quantity, RInt(close - positions[1].entry_price)),
              Unrealized(Tail(positions), close))

\* C11 as stated: every BacktestResult has final_capital = initial_capital +
\* total_pnl = initial_capital + the sum of realized_pnl over its trade log,
\* also when the data ends with a position open.
C11_ResultInvariant ==
    (Replayed /\ TheResult.ok) =>
        /\ TheResult.final_capital = RAdd(TheResult.initial_capital, TheResult.total_pnl)
        /\ TheResult.final_capital =
               RAdd(TheResult.initial_capital, SumRealized(TheResult.trade_log))

\* C11 amended: total_pnl is the sum of realized_pnl over the trade log, and
\* final_capital is initial_capital plus total_pnl plus the unrealized PnL of
\* the position still open at the final close; so final_capital =
\* initial_capital + total_pnl whenever no position remains open.
C11_ResultAccounting ==
    (Replayed /\ TheResult.ok) =>
        /\ TheResult.total_pnl = SumRealized(TheResult.trade_log)
        /\ TheResult.final_capital =
               RAdd(RAdd(TheResult.initial_capital, TheResult.total_pnl),
                    Unrealized(bt.acct.positions, bars[Len(bars)].Close))
        /\ bt.acct.positions = <<>> =>
               TheResult.final_capital =
                   RAdd(TheResult.initial_capital, TheResult.total_pnl)

C11_Witness ==
    /\ Replayed
    /\ TheResult.ok
    /\ TheResult.trade_log # <<>>
    /\ TheResult.total_pnl # RInt(0)
    /\ bt.acct.positions # <<>>
    /\ bt.acct.positions[1].entry_price # bars[Len(bars)].Close

\* The engine is LONG while a position is open and FLAT otherwise.
IsLong(acct) == acct.positions # <<>>

\* The bar the next replay step processes.
NextBar == bars[bt.k]

IsBuy(row) == ~row.isnull /\ row.Signal = 1
IsSell(row) == ~row.isnull /\ row.Signal = -1

\* A replay step that must change nothing: an undefined Signal, a HOLD, a BUY
\* while LONG, a SELL while FLAT.
NoTransitionBar ==
    \/ NextBar.isnull
    \/ NextBar.Signal = 0
    \/ (IsBuy(NextBar) /\ IsLong(bt.acct))
    \/ (IsSell(NextBar) /\ ~IsLong(bt.acct))

TradesInOrder(log) ==
    /\ \A t \in DOMAIN log : log[t].entry_date < log[t].exit_date
    /\ \A t \in DOMAIN log : t > 1 => log[t - 1].exit_date < log[t].entry_date

\* C12: at most one position is open in every state; an undefined Signal, a
\* HOLD, a BUY while LONG and a SELL while FLAT change neither position nor
\* capital nor trade log; a Trade is appended only by a SELL while LONG; so
\* entries and exits alternate, every Trade has its entry before its exit,
\* and an open position was entered after the last recorded exit.
C12_SinglePositionLongOnly ==
    /\ [](Len(bt.acct.positions) <= 1)
    /\ [](TradesInOrder(bt.acct.trade_log))
    /\ []((IsLong(bt.acct) /\ bt.acct.trade_log # <<>>) =>
            bt.acct.trade_log[Len(bt.acct.trade_log)].exit_date
                < bt.acct.positions[1].entry_date)
    /\ [][(bt'.k # bt.k /\ NoTransitionBar) => bt'.acct = bt.acct]_vars
    /\ [][bt'.acct.trade_log # bt.acct.trade_log =>
            /\ bt'.k # bt.k
            /\ IsSell(NextBar) /\ IsLong(bt.acct)
            /\ Len(bt'.acct.trade_log) = Len(bt.acct.trade_log) + 1
            /\ ~IsLong(bt'.acct)]_vars

C12_Witness ==
    /\ Replayed
    /\ Len(bars) = 4
    /\ IsBuy(bars[1]) /\ IsSell(bars[2]) /\ IsBuy(bars[3]) /\ IsBuy(bars[4])
    /\ Len(bt.acct.trade_log) = 1
    /\ IsLong(bt.acct)
    /\ bt.acct.positions[1].entry_date = 3

\* The backtest section is over.
BacktestPhaseOver == pc \in {"sheets", "signal", "finished", "raised"}

CallCount(call) == Cardinality({p \in DOMAIN calls : calls[p] = call})

\* C13: after the backtest phase the PnL summary map has a key for s exactly
\* if s has non-empty data and run_backtest returned a non-empty result for
\* s, and the stored initial_capital, final_capital and total_pnl are those
\* of that result; a symbol with empty data or an empty result adds no
\* entry, and the backtest of every symbol with data has run.
C13_PnlMapMatchesResults ==
    BacktestPhaseOver =>
        /\ DOMAIN symbol_pnl_results \subseteq Symbols
        /\ \A s \in Symbols :
            LET r == run_backtest(s, historical_data[s])
            IN  /\ s \in DOMAIN symbol_pnl_results
                     <=> (~historical_data[s].empty /\ r.ok)
                /\ s \in DOMAIN symbol_pnl_results =>
                     /\ symbol_pnl_results[s].initial_capital = r.initial_capital
                     /\ symbol_pnl_results[s].final_capital = r.final_capital
                     /\ symbol_pnl_results[s].total_pnl = r.total_pnl
                /\ CallCount(<<"run_backtest", s>>)
                     = IF historical_data[s].empty THEN 0 ELSE 1

C13_Witness ==
    /\ pc = "sheets"
    /\ \E a, b \in Symbols :
        /\ a < b
        /\ ~historical_data[a].empty
        /\ ~historical_data[a].result_ok
        /\ a \notin DOMAIN symbol_pnl_results
        /\ b \in DOMAIN symbol_pnl_results
        /\ symbol_pnl_results[b].total_pnl # RInt(0)
        /\ symbol_pnl_results[b].final_capital
             # RAdd(symbol_pnl_results[b].initial_capital, symbol_pnl_results[b].total_pnl)

\* C14: once the training and backtest sections are over, prepare_data_for_ml
\* and run_backtest have each been invoked exactly once for every symbol with
\* a non-empty series and never for a symbol with an empty one, and
\* train_model has been invoked (once) for exactly the symbols whose feature
\* preparation is non-empty, whatever the other symbols' outcomes.
C14_IsolateAndContinue ==
    BacktestPhaseOver =>
        \A s \in Symbols :
            LET has_data == ~historical_data[s].empty
            IN  /\ CallCount(<<"prepare_data_for_ml", s>>) = IF has_data THEN 1 ELSE 0
                /\ CallCount(<<"run_backtest", s>>) = IF has_data THEN 1 ELSE 0
                /\ CallCount(<<"train_model", s>>)
                     = IF has_data /\ historical_data[s].ml_rows THEN 1 ELSE 0

C14_Witness ==
    /\ pc = "sheets"
    /\ \E a, b \in Symbols :
        /\ a < b
        /\ ~historical_data[a].empty
        /\ ~historical_data[a].ml_rows
        /\ ~historical_data[a].result_ok
        /\ CallCount(<<"train_model", b>>) = 1
        /\ CallCount(<<"run_backtest", b>>) = 1

\* The positions of the calls of one collaborator operation.
CallsOf(name) == {p \in DOMAIN calls : calls[p][1] = name}

SinkCalls ==
    CallsOf("log_trade_signals") \cup CallsOf("update_win_ratio")
        \cup CallsOf("update_summary_pnl")

\* C15: log_trade_signals and update_win_ratio are each invoked at most
\* once, in that order and only with a non-empty aggregated trade log;
\* update_summary_pnl is invoked at most once and only with a non-empty PnL
\* map; every sink call comes after the last run_backtest call and before
\* the first generate_signals and the first send_telegram_message call.
C15_SinkDeliveryOrderAndGuards ==
    /\ Cardinality(CallsOf("log_trade_signals")) <= 1
    /\ Cardinality(CallsOf("update_win_ratio")) <= 1
    /\ Cardinality(CallsOf("update_summary_pnl")) <= 1
    /\ CallsOf("log_trade_signals") # {} <=> CallsOf("update_win_ratio") # {}
    /\ \A p \in CallsOf("log_trade_signals") :
        /\ all_trade_logs # <<>>
        /\ \A q \in CallsOf("update_win_ratio") : p < q
    /\ \A q \in CallsOf("update_win_ratio") : all_trade_logs # <<>>
    /\ \A p \in CallsOf("update_summary_pnl") : DOMAIN symbol_pnl_results # {}
    /\ \A p \in SinkCalls :
        /\ \A q \in CallsOf("run_backtest") : q < p
        /\ \A q \in CallsOf("generate_signals") \cup CallsOf("send_telegram_message") : p < q
    /\ pc \in {"signal", "finished", "raised"} =>
        /\ all_trade_logs # <<>> => CallsOf("log_trade_signals") # {}
        /\ DOMAIN symbol_pnl_results # {} => CallsOf("update_summary_pnl") # {}

C15_Witness ==
    /\ pc = "finished"
    /\ CallsOf("log_trade_signals") # {}
    /\ CallsOf("update_summary_pnl") # {}
    /\ CallsOf("send_telegram_message") # {}
    /\ \E s \in Symbols : ~historical_data[s].empty /\ ~historical_data[s].result_ok

\* The symbols for which predict_next_day_movement has been invoked.
PredictedSymbols == {calls[p][2] : p \in CallsOf("predict_next_day_movement")}

\* C16: predict_next_day_movement is invoked for a symbol only while the
\* predictor's trained flag is true and the symbol's prediction window is
\* non-empty; the flag does not change during the current-signal section;
\* and once the run is over either every symbol with non-empty data has got
\* its predict call or no symbol has.
C16_NeverQueriesUntrainedModel ==
    /\ [](\A s \in PredictedSymbols :
            /\ trained
            /\ ~PredictionWindowEmpty(historical_data[s])
            /\ current[s].predicted)
    /\ [][pc = "signal" => trained' = trained]_vars
    /\ [](Terminated => (PredictedSymbols = NonEmptySymbols \/ PredictedSymbols = {}))

C16_Witness ==
    /\ pc = "finished"
    /\ Cardinality(PredictedSymbols) = 2
    /\ \E s \in Symbols : current[s].pred = 1

\* C17: for every symbol with non-empty data, the date and close reported
\* with its current signal, in the log line and in the alert, are those of
\* the last bar of the symbol's full series, on the fallback path and on the
\* normal path.
C17_ReportsLastBarOfSeries ==
    \A s \in BarSymbols :
        current[s].done =>
            LET df == df_of(s)
            IN  /\ current[s].current_date = Len(df)
                /\ current[s].current_close = df[Len(df)]
                /\ \A n \in DOMAIN current[s].alert_args :
                    /\ current[s].alert_args[n].date = Len(df)
                    /\ current[s].alert_args[n].price = df[Len(df)]

C17_Witness ==
    \E s \in BarSymbols :
        /\ current[s].done
        /\ ~current[s].fallback
        /\ current[s].alert_args # <<>>
        /\ Len(df_of(s)) > required_rows_for_indicators(settings)
        /\ df_of(s)[Len(df_of(s))] # df_of(s)[1]
====
